---- MODULE Spec2Model ----
(***************************************************************************)
(* A model of keras/backend/torch/nn.py: the padding arithmetic, the       *)
(* "same" padding helper, the layout transposes, pooling, convolution,     *)
(* one_hot and the categorical cross-entropies.                            *)
(*                                                                         *)
(* The module is a library of pure functions.  A behaviour of the model is *)
(* one call: Init draws the called function and its arguments, the         *)
(* function's action computes the value (or the exception) it returns.     *)
(*                                                                         *)
(* Spatial tensors (pooling, convolution) are modelled by their layout:    *)
(* per axis a label, a length, the cells added before/after it by          *)
(* torch.nn.functional.pad, and the window a native op slid over it.       *)
(* Index tensors (one_hot, cross-entropy) are modelled by value.           *)
(***************************************************************************)
EXTENDS Integers, Sequences, FiniteSets

VARIABLES op, args, ret, pc

vars == <<op, args, ret, pc>>

(***************************************************************************)
(* Bounds of the explored inputs.                                          *)
(***************************************************************************)
\* _compute_padding_length called directly: each argument in 1..Max*.
MaxLen == 6
MaxKernel == 4
MaxStride == 4
MaxDilation == 3
\* Spatial ops: the product of the per-dimension values is bounded.
MaxVolume == 4
MaxKernelVolume == 3
MaxStrideVolume == 2
MaxDilationVolume == 2
MaxBatch == 1
MaxChannels == 3
MaxFilters == 2
\* Index tensors: rank, number of cells and number of classes.
MaxRank == 2
MaxCells == 3
MaxClasses == 3
\* 1-D pooling by value: input length, and cells in -MaxMagnitude..MaxMagnitude.
MaxInput == 4
MaxMagnitude == 1

(***************************************************************************)
(* Python values.                                                          *)
(***************************************************************************)
None == <<>>

\* A padding argument of a native op is an int, a list of ints or a string.
IntPad(v) == [int |-> v]
ListPad(s) == [list |-> s]
StrPad(s) == [str |-> s]

RECURSIVE Prod(_)
Prod(t) == IF Len(t) = 0 THEN 1 ELSE Head(t) * Prod(Tail(t))

\* Tuples of n values >= 1 whose product is at most m.
Tuples(n, m) == {t \in [1..n -> 1..m] : Prod(t) <= m}

\* standardize_tuple applied to an int.
Uniform(n, v) == [i \in 1..n |-> v]

(***************************************************************************)
(* _compute_padding_length (Python // and % are floor division and the     *)
(* non-negative remainder for a positive divisor, as \div and % are).      *)
(***************************************************************************)
\* Mutant: the remainder is taken of input_length instead of input_length - 1.
_compute_padding_length_off_by_one(input_length, kernel_length, stride, dilation_rate) ==
    LET total_padding_length ==
            dilation_rate * (kernel_length - 1) - (input_length % stride)
    IN  <<total_padding_length \div 2, (total_padding_length + 1) \div 2>>

_compute_padding_length(input_length, kernel_length, stride, dilation_rate) ==
    LET total_padding_length ==
            dilation_rate * (kernel_length - 1) - ((input_length - 1) % stride)
        left_padding == total_padding_length \div 2
        right_padding == (total_padding_length + 1) \div 2
    IN  <<left_padding, right_padding>>

(***************************************************************************)
(* Exceptions: a raised exception is a record with the field "raised".     *)
(***************************************************************************)
Raise(exception) == [raised |-> exception]
IsRaised(v) == "raised" \in DOMAIN v

(***************************************************************************)
(* Spatial tensors.                                                        *)
(***************************************************************************)
NoBorder == <<0, 0>>
NoWindow == <<>>

SpatialLabels == <<"S1", "S2", "S3", "S4">>

\* A fresh tensor of the given axes: nothing padded, nothing pooled.
Tensor(axes, shape) ==
    [axes |-> axes, shape |-> shape,
     border |-> [i \in 1..Len(shape) |-> NoBorder],
     window |-> [i \in 1..Len(shape) |-> NoWindow],
     fill |-> "none"]

\* An input of n spatial dimensions in the given data format.
SpatialInput(data_format, batch, channels, spatial_shape) ==
    LET n == Len(spatial_shape)
        labels == [i \in 1..n |-> SpatialLabels[i]]
    IN  IF data_format = "channels_last"
        THEN Tensor(<<"N">> \o labels \o <<"C">>,
                    <<batch>> \o spatial_shape \o <<channels>>)
        ELSE Tensor(<<"N", "C">> \o labels,
                    <<batch, channels>> \o spatial_shape)

\* torch.permute: axis i of the result is axis dims[i] of the input
\* (dims is 0-based, as in the source).
permute(t, dims) ==
    [axes |-> [i \in 1..Len(dims) |-> t.axes[dims[i] + 1]],
     shape |-> [i \in 1..Len(dims) |-> t.shape[dims[i] + 1]],
     border |-> [i \in 1..Len(dims) |-> t.border[dims[i] + 1]],
     window |-> [i \in 1..Len(dims) |-> t.window[dims[i] + 1]],
     fill |-> t.fill]

\* torch.nn.functional.pad: pad holds (before, after) pairs, the first pair
\* for the LAST axis, the second for the one before it, and so on.  A mode
\* other than constant exists for 1, 2 or 3 padded axes of a tensor with
\* one or two more axes only.
tnn_pad(t, pad, mode) ==
    LET r == Len(t.shape)
        m == Len(pad) \div 2
        before(a) == IF r - a + 1 <= m THEN pad[2 * (r - a + 1) - 1] ELSE 0
        after(a) == IF r - a + 1 <= m THEN pad[2 * (r - a + 1)] ELSE 0
    IN  IF mode /= "constant" /\ ~(m \in 1..3 /\ r \in {m + 1, m + 2})
        THEN Raise("NotImplementedError")
        ELSE
        [t EXCEPT !.shape = [a \in 1..r |-> t.shape[a] + before(a) + after(a)],
                  !.border = [a \in 1..r |-> <<before(a), after(a)>>],
                  !.fill = mode]

(***************************************************************************)
(* _apply_same_padding.  inputs is channel-first: axes 3.. are spatial.    *)
(***************************************************************************)
\* The per-dimension (left, right) pairs in spatial order.
padding_size(spatial_shape, kernel_size, strides, operation_type, dilation_rate, i) ==
    IF operation_type = "pooling"
    THEN _compute_padding_length(spatial_shape[i], kernel_size[i], strides[i], 1)
    ELSE _compute_padding_length(spatial_shape[i], kernel_size[i], strides[i],
                                 dilation_rate[i])

\* Mutant: pooling inputs are padded with zeros, as convolution inputs are.
_apply_same_padding_zero_fill(inputs, kernel_size, strides, operation_type, dilation_rate) ==
    LET spatial_shape == SubSeq(inputs.shape, 3, Len(inputs.shape))
        num_spatial_dims == Len(spatial_shape)
        padding == [j \in 1..num_spatial_dims |->
                       padding_size(spatial_shape, kernel_size, strides,
                                    operation_type, dilation_rate,
                                    num_spatial_dims + 1 - j)]
        flattened_padding ==
            [k \in 1..(2 * num_spatial_dims) |-> padding[(k + 1) \div 2][2 - (k % 2)]]
    IN  IF \A j \in 1..num_spatial_dims : padding[j][1] = padding[j][2]
        THEN [tensor |-> inputs,
              padding |-> ListPad([j \in 1..num_spatial_dims |-> padding[j][1]])]
        ELSE [tensor |-> tnn_pad(inputs, flattened_padding, "constant"),
              padding |-> IntPad(0)]

_apply_same_padding(inputs, kernel_size, strides, operation_type, dilation_rate) ==
    LET spatial_shape == SubSeq(inputs.shape, 3, Len(inputs.shape))
        num_spatial_dims == Len(spatial_shape)
        \* padding = (padding_size,) + padding: each pair is prepended, so
        \* the tuple holds the pairs of the last dimension first.
        padding == [j \in 1..num_spatial_dims |->
                       padding_size(spatial_shape, kernel_size, strides,
                                    operation_type, dilation_rate,
                                    num_spatial_dims + 1 - j)]
        mode == IF operation_type = "pooling" THEN "replicate" ELSE "constant"
        flattened_padding ==
            [k \in 1..(2 * num_spatial_dims) |-> padding[(k + 1) \div 2][2 - (k % 2)]]
    IN  IF \A j \in 1..num_spatial_dims : padding[j][1] = padding[j][2]
        THEN [tensor |-> inputs,
              padding |-> ListPad([j \in 1..num_spatial_dims |-> padding[j][1]])]
        ELSE LET padded == tnn_pad(inputs, flattened_padding, mode)
             IN  IF IsRaised(padded)
                 THEN padded
                 ELSE [tensor |-> padded, padding |-> IntPad(0)]

(***************************************************************************)
(* Layout transposes.                                                      *)
(***************************************************************************)
\* Mutant: the 2D output permutation repeats the input one.
_transpose_spatial_outputs_same_as_inputs(outputs) ==
    LET num_spatial_dims == Len(outputs.shape) - 2
    IN  IF num_spatial_dims = 1 THEN permute(outputs, <<0, 2, 1>>)
        ELSE IF num_spatial_dims = 2 THEN permute(outputs, <<0, 3, 1, 2>>)
        ELSE IF num_spatial_dims = 3 THEN permute(outputs, <<0, 2, 3, 4, 1>>)
        ELSE outputs

_transpose_spatial_inputs(inputs) ==
    LET num_spatial_dims == Len(inputs.shape) - 2
    IN  IF num_spatial_dims = 1 THEN permute(inputs, <<0, 2, 1>>)
        ELSE IF num_spatial_dims = 2 THEN permute(inputs, <<0, 3, 1, 2>>)
        ELSE IF num_spatial_dims = 3 THEN permute(inputs, <<0, 4, 1, 2, 3>>)
        ELSE Raise("ValueError")

_transpose_spatial_outputs(outputs) ==
    LET num_spatial_dims == Len(outputs.shape) - 2
    IN  IF num_spatial_dims = 1 THEN permute(outputs, <<0, 2, 1>>)
        ELSE IF num_spatial_dims = 2 THEN permute(outputs, <<0, 2, 3, 1>>)
        ELSE IF num_spatial_dims = 3 THEN permute(outputs, <<0, 2, 3, 4, 1>>)
        ELSE outputs

_transpose_conv_kernel(kernel) ==
    LET num_spatial_dims == Len(kernel.shape) - 2
    IN  IF num_spatial_dims = 1 THEN permute(kernel, <<2, 1, 0>>)
        ELSE IF num_spatial_dims = 2 THEN permute(kernel, <<3, 2, 0, 1>>)
        ELSE IF num_spatial_dims = 3 THEN permute(kernel, <<4, 3, 0, 1, 2>>)
        ELSE kernel

(***************************************************************************)
(* The native ops, by the shape of what they return.  Axes 1 and 2 of the  *)
(* input are taken as batch and channel, axes 3.. as spatial, whatever     *)
(* they hold.  A native op raises RuntimeError on arguments it refuses.    *)
(***************************************************************************)
NativeOutLen(length, kernel, stride, dilation, pad) ==
    ((length + 2 * pad - dilation * (kernel - 1) - 1) \div stride) + 1

\* The padding a native op applies to spatial dimension i (1-based): an int
\* is used for every dimension, a list is read in dimension order.
PadAt(padding, i) ==
    IF "int" \in DOMAIN padding THEN padding.int ELSE padding.list[i]

\* What the native pooling ops refuse: a negative padding, a padding above
\* half of the kernel size, an output length below 1; avg_pool3d also an
\* input shorter than the kernel before the padding is counted.
native_pool_refuses(native, inputs, kernel_size, stride, padding) ==
    \E i \in 1..(Len(inputs.shape) - 2) :
        LET pad == PadAt(padding, i)
        IN  \/ native = "avg_pool3d" /\ inputs.shape[i + 2] < kernel_size[i]
            \/ pad < 0
            \/ pad > kernel_size[i] \div 2
            \/ NativeOutLen(inputs.shape[i + 2], kernel_size[i], stride[i], 1, pad) < 1

\* tnn.max_pool{1,2,3}d and tnn.avg_pool{1,2,3}d.
native_pool(native, inputs, kernel_size, stride, padding) ==
    LET r == Len(inputs.shape)
    IN  IF native_pool_refuses(native, inputs, kernel_size, stride, padding)
        THEN Raise("RuntimeError")
        ELSE
        [axes |-> inputs.axes,
         shape |-> [a \in 1..r |->
                       IF a <= 2 THEN inputs.shape[a]
                       ELSE NativeOutLen(inputs.shape[a], kernel_size[a - 2],
                                         stride[a - 2], 1, PadAt(padding, a - 2))],
         border |-> [a \in 1..r |-> NoBorder],
         window |-> [a \in 1..r |->
                       IF a <= 2 THEN NoWindow
                       ELSE <<kernel_size[a - 2], stride[a - 2], 1>>],
         fill |-> "none"]

\* What the native convolutions refuse: fewer output channels than groups
\* or a number of them that groups does not divide, input channels other
\* than groups times the kernel's, padding 'same' with a stride, a negative
\* padding, a dilated kernel longer than the padded input.
native_conv_refuses(inputs, kernel, stride, dilation, groups, padding) ==
    \/ kernel.shape[1] < groups
    \/ kernel.shape[1] % groups /= 0
    \/ inputs.shape[2] /= groups * kernel.shape[2]
    \/ \E i \in 1..(Len(inputs.shape) - 2) :
           IF "str" \in DOMAIN padding
           THEN IF padding.str = "same" THEN stride[i] /= 1
                ELSE inputs.shape[i + 2] < dilation[i] * (kernel.shape[i + 2] - 1) + 1
           ELSE \/ PadAt(padding, i) < 0
                \/ inputs.shape[i + 2] + 2 * PadAt(padding, i)
                       < dilation[i] * (kernel.shape[i + 2] - 1) + 1

\* tnn.conv{1,2,3}d; kernel is (out_channels, in_channels, spatial..).
\* padding is 'valid', 'same' (stride 1 only) or numbers.
native_conv(inputs, kernel, stride, dilation, groups, padding) ==
    LET r == Len(inputs.shape)
        out(a) ==
            IF "str" \in DOMAIN padding
            THEN IF padding.str = "same" THEN inputs.shape[a]
                 ELSE NativeOutLen(inputs.shape[a], kernel.shape[a],
                                   stride[a - 2], dilation[a - 2], 0)
            ELSE NativeOutLen(inputs.shape[a], kernel.shape[a], stride[a - 2],
                              dilation[a - 2], PadAt(padding, a - 2))
    IN  IF native_conv_refuses(inputs, kernel, stride, dilation, groups, padding)
        THEN Raise("RuntimeError")
        ELSE
        [axes |-> inputs.axes,
         shape |-> [a \in 1..r |->
                       IF a = 1 THEN inputs.shape[1]
                       ELSE IF a = 2 THEN kernel.shape[1]
                       ELSE out(a)],
         border |-> [a \in 1..r |-> NoBorder],
         window |-> [a \in 1..r |->
                       IF a <= 2 THEN NoWindow
                       ELSE <<kernel.shape[a], stride[a - 2], dilation[a - 2]>>],
         fill |-> "none"]

NativeName(family, num_spatial_dims) ==
    IF num_spatial_dims = 1 THEN family \o "1d"
    ELSE IF num_spatial_dims = 2 THEN family \o "2d"
    ELSE family \o "3d"

(***************************************************************************)
(* max_pool.                                                               *)
(***************************************************************************)
max_pool(inputs, pool_size, strides_arg, padding_arg, data_format, device) ==
    LET num_spatial_dims == Len(inputs.shape) - 2
        strides == IF strides_arg = None THEN pool_size ELSE strides_arg
        x1 == IF data_format = "channels_last"
              THEN _transpose_spatial_inputs(inputs) ELSE inputs
        same == IF padding_arg = "same"
                THEN _apply_same_padding(x1, pool_size, strides, "pooling",
                                         Uniform(num_spatial_dims, 1))
                ELSE [tensor |-> x1, padding |-> IntPad(0)]
    IN  IF IsRaised(x1)
        THEN [status |-> x1.raised, native |-> "none"]
        ELSE IF IsRaised(same)
        THEN [status |-> same.raised, native |-> "none"]
        ELSE IF num_spatial_dims \notin 1..3
        THEN [status |-> "ValueError", native |-> "none"]
        ELSE
        LET x2 == same.tensor
            padding == same.padding
            \* On the meta device the op runs on torch.empty of the same shape.
            x3 == IF device = "meta"
                  THEN [Tensor(x2.axes, x2.shape) EXCEPT !.fill = "empty"]
                  ELSE x2
            outputs == native_pool(NativeName("max_pool", num_spatial_dims),
                                   x3, pool_size, strides, padding)
        IN  IF IsRaised(outputs)
            THEN [status |-> outputs.raised,
                  native |-> NativeName("max_pool", num_spatial_dims),
                  native_inputs |-> x3,
                  native_padding |-> padding]
            ELSE
            [status |-> "ok",
             native |-> NativeName("max_pool", num_spatial_dims),
             native_inputs |-> x3,
             native_padding |-> padding,
             outputs |-> IF data_format = "channels_last"
                         THEN _transpose_spatial_outputs(outputs) ELSE outputs]

(***************************************************************************)
(* max_pool by value, on a channels_first input of shape (1, 1, L) given   *)
(* by the sequence of its L cells.  A cell of the tensor handed to the     *)
(* native op carries its value and its source: the position of the input   *)
(* cell it is, or 0 for a cell that tnn.pad added.                         *)
(***************************************************************************)
\* What the native op's own padding stands for: below every value.
NegInf == 0 - (MaxMagnitude + 1)

MaxOf(S) == CHOOSE m \in S : \A v \in S : v <= m

\* tnn.pad along the axis, border = (before, after): cell q of the result
\* is input cell q - before where there is one; a cell outside the input
\* repeats the nearest input cell (replicate) or is 0 (constant).  A
\* negative amount removes cells.
pad_values(values, border, mode) ==
    LET L == Len(values)
    IN  [q \in 1..(L + border[1] + border[2]) |->
            LET i == q - border[1]
            IN  IF i \in 1..L THEN [value |-> values[i], source |-> i]
                ELSE [value |-> IF mode = "replicate"
                                THEN IF i < 1 THEN values[1] ELSE values[L]
                                ELSE 0,
                      source |-> 0]]

\* The cells of a tensor of n cells under the j-th window (1-based) of the
\* native op; the window starts pad cells before the tensor.
pool_window(j, kernel, stride, pad, n) ==
    {q \in 1..n : /\ (j - 1) * stride - pad + 1 <= q
                  /\ q <= (j - 1) * stride - pad + kernel}

\* tnn.max_pool1d with the checks it makes of its arguments.
max_pool1d(cells, kernel, stride, pad) ==
    LET n == Len(cells)
        out == NativeOutLen(n, kernel, stride, 1, pad)
    IN  IF pad < 0 \/ pad > kernel \div 2 \/ out < 1
        THEN [status |-> "RuntimeError"]
        ELSE [status |-> "ok",
              native_inputs |-> cells,
              native_padding |-> pad,
              outputs |-> [j \in 1..out |->
                             LET w == pool_window(j, kernel, stride, pad, n)
                             IN  IF w = {} THEN NegInf
                                 ELSE MaxOf({cells[q].value : q \in w})]]

max_pool_values(values, pool_size, strides, padding) ==
    LET call == max_pool(SpatialInput("channels_first", 1, 1, <<Len(values)>>),
                         pool_size, strides, padding, "channels_first", "cpu")
    IN  IF call.status /= "ok"
        THEN [status |-> call.status]
        ELSE LET window == call.outputs.window[3]
             IN  max_pool1d(pad_values(values, call.native_inputs.border[3],
                                       call.native_inputs.fill),
                            window[1], window[2], PadAt(call.native_padding, 1))

(***************************************************************************)
(* average_pool.                                                           *)
(***************************************************************************)
RECURSIVE uneven_padding(_, _, _, _)
\* The list built by the loop over dimensions 1..i: [0, 1] is prepended
\* for each dimension whose left and right padding differ.
uneven_padding(spatial_shape, pool_size, strides, i) ==
    IF i = 0 THEN <<>>
    ELSE LET padding_size_i == _compute_padding_length(spatial_shape[i], pool_size[i],
                                                       strides[i], 1)
             rest == uneven_padding(spatial_shape, pool_size, strides, i - 1)
         IN  IF padding_size_i[1] /= padding_size_i[2]
             THEN <<0, 1>> \o rest ELSE rest

average_pool(inputs, pool_size, strides_arg, padding_arg, data_format) ==
    LET num_spatial_dims == Len(inputs.shape) - 2
        strides == IF strides_arg = None THEN pool_size ELSE strides_arg
        x1 == IF data_format = "channels_last"
              THEN _transpose_spatial_inputs(inputs) ELSE inputs
    IN  IF IsRaised(x1)
        THEN [status |-> x1.raised, native |-> "none"]
        ELSE
        LET spatial_shape == SubSeq(x1.shape, 3, Len(x1.shape))
            padding_value ==
                IF padding_arg = "same"
                THEN ListPad([i \in 1..num_spatial_dims |->
                                _compute_padding_length(spatial_shape[i], pool_size[i],
                                                        strides[i], 1)[1]])
                ELSE IntPad(0)
            uneven == IF padding_arg = "same"
                      THEN uneven_padding(spatial_shape, pool_size, strides,
                                          num_spatial_dims)
                      ELSE <<>>
            x2 == IF Len(uneven) > 0 THEN tnn_pad(x1, uneven, "constant") ELSE x1
            outputs == native_pool(NativeName("avg_pool", num_spatial_dims),
                                   x2, pool_size, strides, padding_value)
        IN  IF num_spatial_dims \notin 1..3
            THEN [status |-> "ValueError", native |-> "none"]
            ELSE IF IsRaised(outputs)
            THEN [status |-> outputs.raised,
                  native |-> NativeName("avg_pool", num_spatial_dims),
                  native_inputs |-> x2,
                  native_padding |-> padding_value]
            ELSE
            [status |-> "ok",
             native |-> NativeName("avg_pool", num_spatial_dims),
             native_inputs |-> x2,
             native_padding |-> padding_value,
             outputs |-> IF data_format = "channels_last"
                         THEN _transpose_spatial_outputs(outputs) ELSE outputs]

(***************************************************************************)
(* conv and depthwise_conv.  kernel is (spatial.., in_channels, filters).   *)
(***************************************************************************)
groups_of(channels, kernel_in_channels) == channels \div kernel_in_channels

\* Mutant: the check is of the kernel's channels against the input's.
channels_mismatch_inverted(channels, kernel_in_channels) ==
    kernel_in_channels % channels > 0

channels_mismatch(channels, kernel_in_channels) ==
    channels % kernel_in_channels > 0

conv(inputs, kernel_arg, strides, padding_arg, data_format, dilation_rate) ==
    LET num_spatial_dims == Len(inputs.shape) - 2
        x1 == IF data_format = "channels_last"
              THEN _transpose_spatial_inputs(inputs) ELSE inputs
        kernel == _transpose_conv_kernel(kernel_arg)
    IN  IF IsRaised(x1)
        THEN [status |-> "ValueError", native |-> "none"]
        ELSE
        LET manual == /\ padding_arg = "same"
                      /\ \E i \in 1..Len(strides) : strides[i] /= 1
            same == _apply_same_padding(x1, SubSeq(kernel.shape, 3, Len(kernel.shape)),
                                        strides, "conv", dilation_rate)
            x2 == IF manual THEN same.tensor ELSE x1
            padding == IF manual THEN same.padding ELSE StrPad(padding_arg)
            channels == x2.shape[2]
            kernel_in_channels == kernel.shape[2]
        IN  IF channels_mismatch(channels, kernel_in_channels)
            THEN [status |-> "ValueError", native |-> "none"]
            ELSE IF num_spatial_dims \notin 1..3
            THEN [status |-> "ValueError", native |-> "none"]
            ELSE
            LET groups == groups_of(channels, kernel_in_channels)
                outputs == native_conv(x2, kernel, strides, dilation_rate, groups, padding)
            IN  IF IsRaised(outputs)
                THEN [status |-> outputs.raised,
                      native |-> NativeName("conv", num_spatial_dims),
                      native_inputs |-> x2,
                      native_padding |-> padding,
                      groups |-> groups]
                ELSE
                [status |-> "ok",
                 native |-> NativeName("conv", num_spatial_dims),
                 native_inputs |-> x2,
                 native_padding |-> padding,
                 groups |-> groups,
                 outputs |-> IF data_format = "channels_last"
                             THEN _transpose_spatial_outputs(outputs) ELSE outputs]

\* torch.reshape(kernel, kernel.shape[:-2] + (1, shape[-2] * shape[-1])).
depthwise_kernel(kernel) ==
    LET r == Len(kernel.shape)
    IN  [kernel EXCEPT !.shape =
            SubSeq(kernel.shape, 1, r - 2)
                \o <<1, kernel.shape[r - 1] * kernel.shape[r]>>]

depthwise_conv(inputs, kernel, strides, padding, data_format, dilation_rate) ==
    conv(inputs, depthwise_kernel(kernel), strides, padding, data_format, dilation_rate)

(***************************************************************************)
(* Index tensors: a shape and the value of every cell, cells indexed from  *)
(* 0 as in the source.                                                     *)
(***************************************************************************)
Indices(shape) ==
    LET longest == CHOOSE m \in {0} \cup {shape[k] : k \in 1..Len(shape)} :
                       \A k \in 1..Len(shape) : shape[k] <= m
    IN  {idx \in [1..Len(shape) -> 0..(longest - 1)] :
            \A k \in 1..Len(shape) : idx[k] < shape[k]}

\* Python's list indexing and torch's dim arguments: a negative index
\* counts from the end.
InRange(i, n) == (0 - n) <= i /\ i < n

Wrap(i, n) == IF i < 0 THEN i + n ELSE i

\* list(range(dims)) with position pos holding value (Python lists are
\* 0-based, sequences 1-based).
SetItem(list, pos, value) == [list EXCEPT ![Wrap(pos, Len(list)) + 1] = value]

GetItem(list, pos) == list[Wrap(pos, Len(list)) + 1]

\* tnn.one_hot(maximum(x, 0), num_classes) followed by
\* where(expand_dims(x, axis=-1) >= 0, output, 0).
\* Mutant: the where is dropped, a negative entry encodes as class 0.
encode_without_where(x, num_classes) ==
    LET shape == x.shape \o <<num_classes>>
        r == Len(x.shape)
    IN  [shape |-> shape,
         data |-> [idx \in Indices(shape) |->
                     LET v == x.data[SubSeq(idx, 1, r)]
                         clamped == IF v > 0 THEN v ELSE 0
                     IN  IF clamped = idx[r + 1] THEN 1 ELSE 0]]

encode(x, num_classes) ==
    LET shape == x.shape \o <<num_classes>>
        r == Len(x.shape)
    IN  [shape |-> shape,
         data |-> [idx \in Indices(shape) |->
                     LET v == x.data[SubSeq(idx, 1, r)]
                         clamped == IF v > 0 THEN v ELSE 0
                         hot == IF clamped = idx[r + 1] THEN 1 ELSE 0
                     IN  IF v >= 0 THEN hot ELSE 0]]

RECURSIVE shift_axes(_, _, _)
\* for ax in range(first, dims): new_axes_order[ax] -= 1
shift_axes(new_axes_order, first, dims) ==
    IF first >= dims THEN new_axes_order
    ELSE shift_axes(SetItem(new_axes_order, first, GetItem(new_axes_order, first) - 1),
                    first + 1, dims)

\* The list one_hot passes to permute for a non-default axis.
new_axes_order_of(axis, dims) ==
    shift_axes(SetItem([i \in 1..dims |-> i - 1], axis, -1), axis + 1, dims)

\* Tensor.permute on an index tensor; order holds distinct axes in 0..r-1.
permute_values(t, order) ==
    LET r == Len(order)
        shape == [i \in 1..r |-> t.shape[order[i] + 1]]
    IN  [shape |-> shape,
         data |-> [idx \in Indices(shape) |->
                     t.data[[k \in 1..r |->
                               idx[CHOOSE i \in 1..r : order[i] + 1 = k]]]]]

one_hot(x, num_classes, axis) ==
    LET output == encode(x, num_classes)
        dims == Len(output.shape)
    IN  IF \E idx \in Indices(x.shape) : x.data[idx] >= num_classes
        THEN [status |-> "RuntimeError"]       \* raised by tnn.one_hot
        ELSE IF axis /= -1 /\ axis /= dims
        THEN IF ~InRange(axis, dims)
             THEN [status |-> "IndexError"]    \* new_axes_order[axis] = -1
             ELSE
             LET new_axes_order == new_axes_order_of(axis, dims)
                 wrapped == [i \in 1..dims |-> Wrap(new_axes_order[i], dims)]
             IN  IF \E i \in 1..dims : ~InRange(new_axes_order[i], dims)
                 THEN [status |-> "IndexError", new_axes_order |-> new_axes_order]
                 ELSE IF \E i, j \in 1..dims : i /= j /\ wrapped[i] = wrapped[j]
                 THEN [status |-> "RuntimeError", new_axes_order |-> new_axes_order]
                 ELSE [status |-> "ok", new_axes_order |-> new_axes_order,
                       output |-> permute_values(output, wrapped)]
        ELSE [status |-> "ok", new_axes_order |-> None, output |-> output]

(***************************************************************************)
(* Cross-entropies.  output is modelled by its shape; the cell idx of      *)
(* log_prob is the term that names how the source computes it: by          *)
(* log_softmax along axis (from_logits), or by the log of the clipped      *)
(* quotient of the cell by the sum along axis.  A sum over an axis is the  *)
(* set of its (position, coefficient, term) summands with a non-zero       *)
(* coefficient, so two results are equal when they sum the same cells      *)
(* with the same coefficients.                                             *)
(***************************************************************************)
RemoveAt(s, pos) == SubSeq(s, 1, pos) \o SubSeq(s, pos + 2, Len(s))

PutAt(s, pos, v) == SubSeq(s, 1, pos) \o <<v>> \o SubSeq(s, pos + 1, Len(s))

log_prob(output, from_logits, axis) ==
    [shape |-> output.shape,
     data |-> [idx \in Indices(output.shape) |->
                 [fn |-> IF from_logits THEN "log_softmax" ELSE "log_clip_normalized",
                  dim |-> Wrap(axis, Len(output.shape)),
                  cell |-> idx]]]

\* Elementwise broadcasting of two shapes of the same rank.
Broadcastable(s1, s2) ==
    \A k \in 1..Len(s1) : s1[k] = s2[k] \/ s1[k] = 1 \/ s2[k] = 1

BroadcastShape(s1, s2) == [k \in 1..Len(s1) |-> IF s1[k] = 1 THEN s2[k] ELSE s1[k]]

BroadcastIndex(idx, shape) == [k \in 1..Len(shape) |-> IF shape[k] = 1 THEN 0 ELSE idx[k]]

\* -torch.sum(target * log_prob, dim=axis)
neg_sum_product(target, logp, axis) ==
    LET r == Len(logp.shape)
        ax == Wrap(axis, r)
        shape == BroadcastShape(target.shape, logp.shape)
        reduced == RemoveAt(shape, ax)
    IN  [shape |-> reduced,
         data |-> [j \in Indices(reduced) |->
                     {<<k, target.data[BroadcastIndex(PutAt(j, ax, k), target.shape)],
                        logp.data[BroadcastIndex(PutAt(j, ax, k), logp.shape)]>> :
                         k \in {c \in 0..(shape[ax + 1] - 1) :
                                  target.data[BroadcastIndex(PutAt(j, ax, c),
                                                             target.shape)] /= 0}}]]

categorical_crossentropy(target, output, from_logits, axis) ==
    IF target.shape /= output.shape
    THEN [status |-> "ValueError"]
    ELSE IF Len(target.shape) < 1
    THEN [status |-> "ValueError"]
    ELSE IF ~InRange(axis, Len(output.shape))
    THEN [status |-> "IndexError"]             \* raised by the reduction
    ELSE [status |-> "ok",
          value |-> neg_sum_product(target, log_prob(output, from_logits, axis), axis)]

\* torch.squeeze(target, dim=-1)
squeeze_last(target) ==
    LET shape == SubSeq(target.shape, 1, Len(target.shape) - 1)
    IN  [shape |-> shape,
         data |-> [idx \in Indices(shape) |-> target.data[idx \o <<0>>]]]

one_hot_target(target, output, axis) ==
    one_hot(target, output.shape[Wrap(axis, Len(output.shape)) + 1], axis)

sparse_categorical_crossentropy(target_arg, output, from_logits, axis) ==
    IF Len(target_arg.shape) = 0 /\ Len(output.shape) = 0
    THEN [status |-> "IndexError"]             \* target.shape[-1] of ()
    ELSE
    LET target == IF /\ Len(target_arg.shape) = Len(output.shape)
                     /\ target_arg.shape[Len(target_arg.shape)] = 1
                  THEN squeeze_last(target_arg) ELSE target_arg
    IN  IF Len(output.shape) < 1
        THEN [status |-> "ValueError"]
        ELSE IF target.shape /= SubSeq(output.shape, 1, Len(output.shape) - 1)
        THEN [status |-> "ValueError"]
        ELSE IF ~InRange(axis, Len(output.shape))
        THEN [status |-> "IndexError"]         \* raised by the reduction
        ELSE
        LET hot == one_hot_target(target, output, axis)
            logp == log_prob(output, from_logits, axis)
        IN  IF hot.status /= "ok"
            THEN [status |-> hot.status]
            ELSE IF ~Broadcastable(hot.output.shape, logp.shape)
            THEN [status |-> "RuntimeError"]   \* target * log_prob
            ELSE [status |-> "ok", value |-> neg_sum_product(hot.output, logp, axis)]

\* The cell idx of the elementwise loss is the term that names how the
\* source computes it and on which target value.
binary_crossentropy(target, output, from_logits) ==
    IF target.shape /= output.shape
    THEN [status |-> "ValueError"]
    ELSE [status |-> "ok",
          value |-> [shape |-> output.shape,
                     data |-> [idx \in Indices(output.shape) |->
                                 [fn |-> IF from_logits
                                         THEN "binary_cross_entropy_with_logits"
                                         ELSE "binary_cross_entropy_clipped",
                                  cell |-> idx,
                                  target |-> target.data[idx]]]]]

(***************************************************************************)
(* Calls and the actions.                                                  *)
(***************************************************************************)
\* The state in which function name is about to be called on arguments a.
Start(name, a) ==
    /\ pc = "call"
    /\ ret = [status |-> "pending"]
    /\ op = name
    /\ args = a

Init_compute_padding_length ==
    \E L \in 1..MaxLen, K \in 1..MaxKernel, S \in 1..MaxStride, D \in 1..MaxDilation :
        Start("_compute_padding_length",
              [input_length |-> L, kernel_length |-> K, stride |-> S,
               dilation_rate |-> D])

\* The helper called for pooling (dilation 1) and for convolution, on every
\* per-dimension shape, kernel size, stride and dilation within the volume
\* bounds.
Init_apply_same_padding ==
    \E n \in 1..3 :
        \E shape \in Tuples(n, MaxVolume), k \in Tuples(n, MaxKernelVolume),
           s \in Tuples(n, MaxStrideVolume) :
            \/ Start("_apply_same_padding",
                     [inputs |-> SpatialInput("channels_first", 1, 1, shape),
                      kernel_size |-> k, strides |-> s,
                      operation_type |-> "pooling",
                      dilation_rate |-> Uniform(n, 1)])
            \/ \E d \in Tuples(n, MaxDilationVolume) :
                   Start("_apply_same_padding",
                         [inputs |-> SpatialInput("channels_first", 1, 1, shape),
                          kernel_size |-> k, strides |-> s,
                          operation_type |-> "conv", dilation_rate |-> d])

DataFormats == {"channels_first", "channels_last"}
PaddingModes == {"valid", "same"}

\* Pooling calls on 1 to 4 spatial dimensions (4 is one more than the
\* native ops have): every per-dimension shape, pool size and stride within
\* the volume bounds; strides may be left at None.
InitPool(name, devices) ==
    \E n \in 1..4 :
        \E shape \in Tuples(n, MaxVolume), k \in Tuples(n, MaxKernelVolume),
           s \in Tuples(n, MaxStrideVolume) \cup {None},
           f \in DataFormats, p \in PaddingModes, dev \in devices :
            Start(name,
                  [inputs |-> SpatialInput(f, MaxBatch, MaxChannels, shape),
                   pool_size |-> k, strides |-> s, padding |-> p,
                   data_format |-> f, device |-> dev])

Init_max_pool == InitPool("max_pool", {"cpu", "meta"})

Init_average_pool == InitPool("average_pool", {"cpu"})

\* max_pool on every 1-D input of 1..MaxInput cells with values in
\* -MaxMagnitude..MaxMagnitude, every pool size and stride (or None).
Init_max_pool_values ==
    \E L \in 1..MaxInput, K \in 1..MaxKernel, p \in PaddingModes,
       s \in {<<S>> : S \in 1..MaxStride} \cup {None} :
        \E values \in [1..L -> (0 - MaxMagnitude)..MaxMagnitude] :
            Start("max_pool_values",
                  [inputs |-> values, pool_size |-> <<K>>, strides |-> s,
                   padding |-> p])

\* A kernel in the layout of the library: (spatial.., in_channels, filters).
Kernel(spatial, in_channels, filters) ==
    LET n == Len(spatial)
    IN  Tensor([i \in 1..n |-> <<"K1", "K2", "K3">>[i]] \o <<"I", "O">>,
               spatial \o <<in_channels, filters>>)

\* Convolution calls: every channel count of the input and of the kernel,
\* on inputs of MaxVolume cells per spatial dimension; dilation_rate is
\* given as an int (a uniform tuple once standardized).
InitConv(name) ==
    \E n \in 1..3 :
        \E k \in Tuples(n, MaxKernelVolume), s \in Tuples(n, MaxStrideVolume),
           f \in DataFormats, p \in PaddingModes, d \in 1..MaxDilationVolume,
           channels \in 1..MaxChannels, kernel_channels \in 1..MaxChannels,
           filters \in 1..MaxFilters :
            Start(name,
                  [inputs |-> SpatialInput(f, MaxBatch, channels, Uniform(n, MaxVolume)),
                   kernel |-> Kernel(k, kernel_channels, filters),
                   strides |-> s, padding |-> p, data_format |-> f,
                   dilation_rate |-> Uniform(n, d)])

Init_conv == InitConv("conv")

Init_depthwise_conv == InitConv("depthwise_conv")

\* Index tensors of a given shape with cells drawn from values.
IndexTensors(shape, values) ==
    {[shape |-> shape, data |-> d] : d \in [Indices(shape) -> values]}

\* one_hot on every tensor of rank 0..MaxRank of at most MaxCells cells
\* whose entries are -1 or a class, for every axis from -(r+1) to r+1.
Init_one_hot ==
    \E r \in 0..MaxRank, num_classes \in 1..MaxClasses :
        \E shape \in Tuples(r, MaxCells), axis \in (0 - (r + 1))..(r + 1) :
            \E x \in IndexTensors(shape, (-1)..(num_classes - 1)) :
                Start("one_hot", [x |-> x, num_classes |-> num_classes, axis |-> axis])

\* The target shapes tried against an output shape and an axis: the output
\* shape without the class axis, without the last axis, without the last
\* axis plus a trailing 1, and the output shape itself.
TargetShapes(shape, axis) ==
    {RemoveAt(shape, Wrap(axis, Len(shape))),
     SubSeq(shape, 1, Len(shape) - 1),
     SubSeq(shape, 1, Len(shape) - 1) \o <<1>>,
     shape}

\* Cross-entropy calls on every output shape of rank 0..MaxRank of at most
\* MaxCells cells, every axis of it (the default -1 for a scalar), both
\* values of from_logits; sparse targets hold classes of the class axis,
\* dense targets hold 0 or 1.
InitCrossentropy(name, dense) ==
    \E r \in 0..MaxRank, from_logits \in BOOLEAN :
        \E shape \in Tuples(r, MaxCells),
           axis \in IF r = 0 THEN {-1} ELSE (0 - r)..(r - 1) :
            \E target_shape \in TargetShapes(shape, axis) :
                \E target \in IndexTensors(target_shape,
                                           IF dense THEN 0..1
                                           ELSE IF r = 0 THEN {0}
                                           ELSE 0..(shape[Wrap(axis, r) + 1] - 1)) :
                    Start(name, [target |-> target, output |-> [shape |-> shape],
                                 from_logits |-> from_logits, axis |-> axis])

Init_categorical_crossentropy == InitCrossentropy("categorical_crossentropy", TRUE)

Init_sparse_categorical_crossentropy ==
    InitCrossentropy("sparse_categorical_crossentropy", FALSE)

\* binary_crossentropy has no axis: targets of the shape of the output, of
\* that shape without its last axis, and of the latter plus a trailing 1.
Init_binary_crossentropy ==
    \E r \in 0..MaxRank, from_logits \in BOOLEAN :
        \E shape \in Tuples(r, MaxCells) :
            \E target_shape \in TargetShapes(shape, -1) :
                \E target \in IndexTensors(target_shape, 0..1) :
                    Start("binary_crossentropy",
                          [target |-> target, output |-> [shape |-> shape],
                           from_logits |-> from_logits])

Return(value) ==
    /\ pc' = "done"
    /\ ret' = value
    /\ UNCHANGED <<op, args>>

Do_compute_padding_length ==
    /\ pc = "call" /\ op = "_compute_padding_length"
    /\ Return([status |-> "ok",
               value |-> _compute_padding_length(args.input_length, args.kernel_length,
                                                 args.stride, args.dilation_rate)])

Do_apply_same_padding ==
    /\ pc = "call" /\ op = "_apply_same_padding"
    /\ LET value == _apply_same_padding(args.inputs, args.kernel_size, args.strides,
                                        args.operation_type, args.dilation_rate)
       IN  Return(IF IsRaised(value) THEN [status |-> value.raised]
                  ELSE [status |-> "ok", value |-> value])

Do_max_pool ==
    /\ pc = "call" /\ op = "max_pool"
    /\ Return(max_pool(args.inputs, args.pool_size, args.strides, args.padding,
                       args.data_format, args.device))

Do_average_pool ==
    /\ pc = "call" /\ op = "average_pool"
    /\ Return(average_pool(args.inputs, args.pool_size, args.strides, args.padding,
                           args.data_format))

Do_conv ==
    /\ pc = "call" /\ op = "conv"
    /\ Return(conv(args.inputs, args.kernel, args.strides, args.padding,
                   args.data_format, args.dilation_rate))

Do_depthwise_conv ==
    /\ pc = "call" /\ op = "depthwise_conv"
    /\ Return(depthwise_conv(args.inputs, args.kernel, args.strides, args.padding,
                             args.data_format, args.dilation_rate))

Do_max_pool_values ==
    /\ pc = "call" /\ op = "max_pool_values"
    /\ Return(max_pool_values(args.inputs, args.pool_size, args.strides, args.padding))

SpecMaxPoolValues == Init_max_pool_values /\ [][Do_max_pool_values]_vars

NextSpatial == Do_max_pool \/ Do_average_pool \/ Do_conv \/ Do_depthwise_conv

InitSpatial == Init_max_pool \/ Init_average_pool \/ Init_conv \/ Init_depthwise_conv

SpecSpatial == InitSpatial /\ [][NextSpatial]_vars

Do_one_hot ==
    /\ pc = "call" /\ op = "one_hot"
    /\ Return(one_hot(args.x, args.num_classes, args.axis))

SpecOneHot == Init_one_hot /\ [][Do_one_hot]_vars

Do_categorical_crossentropy ==
    /\ pc = "call" /\ op = "categorical_crossentropy"
    /\ Return(categorical_crossentropy(args.target, args.output, args.from_logits,
                                       args.axis))

Do_sparse_categorical_crossentropy ==
    /\ pc = "call" /\ op = "sparse_categorical_crossentropy"
    /\ Return(sparse_categorical_crossentropy(args.target, args.output,
                                              args.from_logits, args.axis))

Do_binary_crossentropy ==
    /\ pc = "call" /\ op = "binary_crossentropy"
    /\ Return(binary_crossentropy(args.target, args.output, args.from_logits))

InitCrossentropies ==
    \/ Init_categorical_crossentropy
    \/ Init_sparse_categorical_crossentropy
    \/ Init_binary_crossentropy

NextCrossentropies ==
    \/ Do_categorical_crossentropy
    \/ Do_sparse_categorical_crossentropy
    \/ Do_binary_crossentropy

SpecCrossentropy == InitCrossentropies /\ [][NextCrossentropies]_vars

SpecPadding == Init_compute_padding_length /\ [][Do_compute_padding_length]_vars

SpecSamePadding == Init_apply_same_padding /\ [][Do_apply_same_padding]_vars

(***************************************************************************)
(* The whole module: any one call.                                         *)
(***************************************************************************)
Init ==
    \/ Init_compute_padding_length
    \/ Init_apply_same_padding
    \/ InitSpatial
    \/ Init_max_pool_values
    \/ Init_one_hot
    \/ InitCrossentropies

Next ==
    \/ Do_compute_padding_length
    \/ Do_apply_same_padding
    \/ NextSpatial
    \/ Do_max_pool_values
    \/ Do_one_hot
    \/ NextCrossentropies

Spec == Init /\ [][Next]_vars

CeilDiv(a, b) == (a + b - 1) \div b

(***************************************************************************)
(* Claims about _compute_padding_length (SpecPadding).                     *)
(***************************************************************************)
PaddingDone == pc = "done" /\ op = "_compute_padding_length"

\* C3: for all L, K, S, D >= 1 the returned (left, right) has
\* left + right >= 0 and left <= right <= left + 1.
\* The code returns a negative total when (L-1) mod S > D*(K-1).
C3_NonNegativeRightBiased ==
    PaddingDone =>
        /\ ret.value[1] + ret.value[2] >= 0
        /\ ret.value[1] <= ret.value[2]
        /\ ret.value[2] <= ret.value[1] + 1

\* The least integer P (a negative P crops) for which the strided output
\* length over L + P cells equals ceil(L/S); 0 - (L + S) is below every
\* candidate and D*K + S above the least one.
MinTotalPadding(L, K, S, D) ==
    LET candidates == (0 - (L + S))..(D * K + S)
        fits(P) == ((L + P - D * (K - 1) - 1) \div S) + 1 = CeilDiv(L, S)
    IN  CHOOSE P \in candidates :
            fits(P) /\ \A Q \in candidates : Q < P => ~fits(Q)

\* C4: left + right is the minimum total padding P for which
\* floor((L + P - D*(K-1) - 1)/S) + 1 = ceil(L/S), and left = total // 2,
\* right = (total + 1) // 2 with total = D*(K-1) - ((L-1) mod S).
C4_MinimalTotalPadding ==
    PaddingDone =>
        LET L == args.input_length
            K == args.kernel_length
            S == args.stride
            D == args.dilation_rate
            total == D * (K - 1) - ((L - 1) % S)
        IN  /\ \E P \in (0 - (L + S))..(D * K + S) :
                    ((L + P - D * (K - 1) - 1) \div S) + 1 = CeilDiv(L, S)
            /\ ret.value[1] + ret.value[2] = MinTotalPadding(L, K, S, D)
            /\ ret.value[1] = total \div 2
            /\ ret.value[2] = (total + 1) \div 2

\* C4 witness: a strided, dilated call whose total is odd and reduced by a
\* non-zero remainder.
C4_Witness ==
    /\ PaddingDone
    /\ args.stride > 1 /\ args.dilation_rate > 1 /\ args.kernel_length > 1
    /\ (args.input_length - 1) % args.stride > 0
    /\ ret.value[2] = ret.value[1] + 1
    /\ ret.value[1] > 0

(***************************************************************************)
(* Claims about _apply_same_padding (SpecSamePadding).                     *)
(***************************************************************************)
SamePaddingDone == pc = "done" /\ op = "_apply_same_padding"

\* The dilation of dimension i as the native op sees it.
DilationAt(i) ==
    IF args.operation_type = "pooling" THEN 1 ELSE args.dilation_rate[i]

\* max_pool always calls the helper; conv calls it when some stride is not 1.
CalledAsByCaller ==
    \/ args.operation_type = "pooling"
    \/ \E i \in 1..Len(args.strides) : args.strides[i] /= 1

\* C1: the returned (tensor, padding), passed to the native op with the
\* padding read in dimension order, yields output length ceil(L_i/S_i) in
\* every spatial dimension i.  The symmetric path returns the list reversed.
C1_SameOutputLength ==
    (SamePaddingDone /\ CalledAsByCaller) =>
        \A i \in 1..Len(args.strides) :
            NativeOutLen(ret.value.tensor.shape[i + 2], args.kernel_size[i],
                         args.strides[i], DilationAt(i),
                         PadAt(ret.value.padding, i))
                = CeilDiv(args.inputs.shape[i + 2], args.strides[i])

\* The (left, right) pair of spatial dimension i of the call in progress.
PairAt(i) ==
    _compute_padding_length(args.inputs.shape[i + 2], args.kernel_size[i],
                            args.strides[i], DilationAt(i))

\* C10: either every dimension is symmetric and the input is returned
\* unchanged with the list whose i-th value is dimension i's padding, or
\* some dimension is asymmetric and every spatial dimension i is extended
\* by left_i before and right_i after (replicate for pooling, zeros for
\* convolution), with padding amount 0.
C10_TwoOutcomes ==
    SamePaddingDone =>
        LET n == Len(args.strides)
            t == ret.value.tensor
        IN  IF \A i \in 1..n : PairAt(i)[1] = PairAt(i)[2]
            THEN /\ t = args.inputs
                 /\ ret.value.padding = ListPad([i \in 1..n |-> PairAt(i)[1]])
            ELSE /\ ret.value.padding = IntPad(0)
                 /\ t.axes = args.inputs.axes
                 /\ \A a \in 1..2 : /\ t.shape[a] = args.inputs.shape[a]
                                    /\ t.border[a] = NoBorder
                 /\ \A i \in 1..n :
                        /\ t.border[i + 2] = PairAt(i)
                        /\ t.shape[i + 2] =
                               args.inputs.shape[i + 2] + PairAt(i)[1] + PairAt(i)[2]
                 /\ t.fill = IF args.operation_type = "pooling"
                             THEN "replicate" ELSE "constant"

(***************************************************************************)
(* Claims about pooling and convolution (SpecSpatial).                     *)
(***************************************************************************)
\* The position of the axis of t that carries the given label.
AxisOf(t, label) == CHOOSE k \in 1..Len(t.axes) : t.axes[k] = label

LenOf(t, label) == t.shape[AxisOf(t, label)]

\* t with its axes put in the given order of labels.
ByLabels(t, labels) == permute(t, [i \in 1..Len(labels) |-> AxisOf(t, labels[i]) - 1])

SpatialLabelsOf(t) == [i \in 1..(Len(t.shape) - 2) |-> SpatialLabels[i]]

ChannelsFirst(t) == ByLabels(t, <<"N", "C">> \o SpatialLabelsOf(t))

ChannelsLast(t) == ByLabels(t, <<"N">> \o SpatialLabelsOf(t) \o <<"C">>)

\* The strides the pooling call in progress uses.
PoolStrides == IF args.strides = None THEN args.pool_size ELSE args.strides

\* C2: average_pool with padding "same" yields output length ceil(L_i/S_i)
\* in every spatial dimension i, and the explicit extra padding is applied
\* to exactly the dimensions whose left and right padding differ.
\* The code pads the LAST k dimensions, k the number of uneven ones.
C2_AveragePoolSame ==
    (/\ pc = "done" /\ op = "average_pool" /\ args.padding = "same"
     /\ Len(args.pool_size) \in 1..3) =>
        /\ ret.status = "ok"
        /\ \A i \in 1..Len(args.pool_size) :
            LET L == LenOf(args.inputs, SpatialLabels[i])
                pair == _compute_padding_length(L, args.pool_size[i], PoolStrides[i], 1)
            IN  /\ LenOf(ret.outputs, SpatialLabels[i]) = CeilDiv(L, PoolStrides[i])
                /\ ret.native_inputs.border[i + 2] =
                       IF pair[1] /= pair[2] THEN <<0, 1>> ELSE <<0, 0>>

\* The call in progress repeated on the channel-first permutation of its
\* input, in channels_first format.
ChannelsFirstResult ==
    IF op = "max_pool"
    THEN max_pool(ChannelsFirst(args.inputs), args.pool_size, args.strides,
                  args.padding, "channels_first", args.device)
    ELSE IF op = "average_pool"
    THEN average_pool(ChannelsFirst(args.inputs), args.pool_size, args.strides,
                      args.padding, "channels_first")
    ELSE conv(ChannelsFirst(args.inputs), args.kernel, args.strides, args.padding,
              "channels_first", args.dilation_rate)

\* C7: for ranks 3, 4 and 5, _transpose_spatial_outputs undoes
\* _transpose_spatial_inputs, and max_pool, average_pool and conv called
\* with channels_last return the channels_first result on the
\* channel-first permutation of the input, permuted back: batch axis
\* first, channel axis last, spatial axes in their original order.
C7_ChannelsLastIsTransposedChannelsFirst ==
    (/\ pc = "done"
     /\ op \in {"max_pool", "average_pool", "conv"}
     /\ Len(args.inputs.shape) \in 3..5
     /\ args.data_format = "channels_last") =>
        /\ _transpose_spatial_outputs(_transpose_spatial_inputs(args.inputs)) = args.inputs
        /\ _transpose_spatial_inputs(args.inputs) = ChannelsFirst(args.inputs)
        /\ ret.status = ChannelsFirstResult.status
        /\ ret.status = "ok" =>
            /\ ret.native_inputs = ChannelsFirstResult.native_inputs
            /\ ret.outputs = ChannelsLast(ChannelsFirstResult.outputs)
            /\ ret.outputs.axes = <<"N">> \o SpatialLabelsOf(args.inputs) \o <<"C">>

\* C7 witness: a strided 3D convolution in channels_last whose filter count
\* differs from the channel count and whose output is shorter than its input.
C7_Witness ==
    /\ pc = "done" /\ op = "conv" /\ args.data_format = "channels_last"
    /\ Len(args.inputs.shape) = 5
    /\ ret.status = "ok" /\ ret.groups = 1
    /\ args.kernel.shape[1] > 1
    /\ ret.outputs.shape[5] /= args.inputs.shape[5]
    /\ ret.outputs.shape[2] < args.inputs.shape[2]
    /\ ret.outputs.shape[3] = args.inputs.shape[3]

\* The kernel's input-channel count, read from the kernel as it is passed.
KernelInChannels == args.kernel.shape[Len(args.kernel.shape) - 1]

\* C9: conv raises ValueError, and calls no native op, when the input's
\* channel count is not a multiple of the kernel's input-channel count;
\* otherwise the native op is called (whatever it then returns or raises)
\* with groups equal to the quotient.  For depthwise_conv the check always
\* passes and groups is the input's channel count.
C9_ChannelDivisibility ==
    /\ (pc = "done" /\ op = "conv") =>
           IF LenOf(args.inputs, "C") % KernelInChannels /= 0
           THEN ret.status = "ValueError" /\ ret.native = "none"
           ELSE /\ ret.status /= "ValueError"
                /\ ret.native \in {"conv1d", "conv2d", "conv3d"}
                /\ ret.groups = LenOf(args.inputs, "C") \div KernelInChannels
    /\ (pc = "done" /\ op = "depthwise_conv") =>
           /\ ret.status /= "ValueError"
           /\ ret.native \in {"conv1d", "conv2d", "conv3d"}
           /\ ret.groups = LenOf(args.inputs, "C")

\* C9 witness: three input channels against a kernel of two are refused.
C9_Witness ==
    /\ pc = "done" /\ op = "conv"
    /\ LenOf(args.inputs, "C") > KernelInChannels
    /\ KernelInChannels > 1
    /\ ret.status = "ValueError"

(***************************************************************************)
(* Claims about one_hot (SpecOneHot).                                      *)
(***************************************************************************)
\* What the cell of class c at position idx of x must hold.
ExpectedHot(idx, c) ==
    IF args.x.data[idx] < 0 THEN 0
    ELSE IF args.x.data[idx] = c THEN 1 ELSE 0

\* C5: with the default axis one_hot never fails on a negative entry: the
\* row of a negative entry is all zeros of length C, the row of an entry
\* k >= 0 has a one at position k and zeros elsewhere.
C5_NegativeEntriesAreZeroRows ==
    (pc = "done" /\ op = "one_hot" /\ args.axis = -1) =>
        /\ ret.status = "ok"
        /\ ret.output.shape = args.x.shape \o <<args.num_classes>>
        /\ \A idx \in Indices(args.x.shape) :
               \A c \in 0..(args.num_classes - 1) :
                   ret.output.data[idx \o <<c>>] = ExpectedHot(idx, c)

\* C5 witness: one_hot([-1, 0, 2], 3) = [[0,0,0],[1,0,0],[0,0,1]].
C5_Witness ==
    /\ pc = "done" /\ op = "one_hot" /\ args.axis = -1 /\ args.num_classes = 3
    /\ args.x.shape = <<3>>
    /\ args.x.data[<<0>>] = -1 /\ args.x.data[<<1>>] = 0 /\ args.x.data[<<2>>] = 2
    /\ ret.status = "ok"
    /\ \A c \in 0..2 : ret.output.data[<<0, c>>] = 0
    /\ ret.output.data[<<1, 0>>] = 1 /\ ret.output.data[<<1, 1>>] = 0
    /\ ret.output.data[<<1, 2>>] = 0
    /\ ret.output.data[<<2, 0>>] = 0 /\ ret.output.data[<<2, 1>>] = 0
    /\ ret.output.data[<<2, 2>>] = 1

\* C6: for x of rank r and every axis a that is not the last one (a in
\* 0..r-1 or a in -(r+1)..-2) the order passed to permute is a permutation
\* of the r+1 output axes that puts the class dimension at position a and
\* keeps the axes of x in their order, so the result has the shape of x
\* with num_classes inserted at position a.
\* For a negative a the loop over range(a + 1, dims) also runs over the
\* negative positions and over every position from 0.
C6_ClassAxisMovedToAxis ==
    (/\ pc = "done" /\ op = "one_hot"
     /\ \/ args.axis \in 0..(Len(args.x.shape) - 1)
        \/ args.axis \in (0 - (Len(args.x.shape) + 1))..(-2)) =>
        LET r == Len(args.x.shape)
            pos == Wrap(args.axis, r + 1)
        IN  /\ ret.status = "ok"
            /\ \A i \in 1..(r + 1) :
                   Wrap(ret.new_axes_order[i], r + 1) =
                       IF i - 1 < pos THEN i - 1
                       ELSE IF i - 1 = pos THEN r
                       ELSE i - 2
            /\ ret.output.shape = PutAt(args.x.shape, pos, args.num_classes)
            /\ \A idx \in Indices(args.x.shape) :
                   \A c \in 0..(args.num_classes - 1) :
                       ret.output.data[PutAt(idx, pos, c)] = ExpectedHot(idx, c)

(***************************************************************************)
(* Claims about the cross-entropies (SpecCrossentropy).                    *)
(***************************************************************************)
\* The one-hot expansion of the labels along the class axis of the output:
\* a tensor of the output's shape whose cell is 1 where the index along
\* the class axis is the label of the remaining position.
OneHotAlong(labels, shape, axis) ==
    LET ax == Wrap(axis, Len(shape))
    IN  [shape |-> shape,
         data |-> [idx \in Indices(shape) |->
                     IF labels.data[RemoveAt(idx, ax)] = idx[ax + 1] THEN 1 ELSE 0]]

\* C8: for every output of rank >= 1, every class axis (last or not) and
\* both values of from_logits, sparse_categorical_crossentropy on in-range
\* labels returns what categorical_crossentropy returns on their one-hot
\* expansion along that axis.
\* The sparse function compares the labels' shape with output.shape[:-1]
\* whatever the axis, and one_hot misplaces the class axis for a negative
\* axis other than -1.
C8_SparseAgreesWithCategorical ==
    (/\ pc = "done" /\ op = "sparse_categorical_crossentropy"
     /\ Len(args.output.shape) >= 1
     /\ args.target.shape =
            RemoveAt(args.output.shape, Wrap(args.axis, Len(args.output.shape)))) =>
        ret = categorical_crossentropy(
                  OneHotAlong(args.target, args.output.shape, args.axis),
                  args.output, args.from_logits, args.axis)

(***************************************************************************)
(* Claims about the shape checks of the cross-entropies (SpecCrossentropy). *)
(***************************************************************************)
\* The shape of target after the squeeze of its last dimension, which
\* happens exactly when target has the rank of output and ends in 1.
SqueezedShape(target_shape, output_shape) ==
    IF /\ Len(target_shape) = Len(output_shape)
       /\ Len(target_shape) >= 1
       /\ target_shape[Len(target_shape)] = 1
    THEN SubSeq(target_shape, 1, Len(target_shape) - 1)
    ELSE target_shape

\* C11: sparse_categorical_crossentropy squeezes the last dimension of
\* target exactly when target has the rank of output and its last dimension
\* is 1; it then raises a ValueError whenever output has rank 0 or the
\* shape of target differs from output.shape[:-1], and raises no ValueError
\* when they are equal.  categorical_crossentropy and binary_crossentropy
\* raise a ValueError whenever target.shape differs from output.shape.
C11_ShapeErrors ==
    pc = "done" =>
        LET t == args.target.shape
            o == args.output.shape
        IN  /\ op = "sparse_categorical_crossentropy" =>
                IF \/ Len(o) < 1
                   \/ SqueezedShape(t, o) /= SubSeq(o, 1, Len(o) - 1)
                THEN ret.status = "ValueError"
                ELSE ret.status /= "ValueError"
            /\ (op \in {"categorical_crossentropy", "binary_crossentropy"} /\ t /= o) =>
                ret.status = "ValueError"

(***************************************************************************)
(* Claims about max_pool by value (SpecMaxPoolValues).                     *)
(***************************************************************************)
\* A finished 1-D max_pool with padding="same" whose left and right
\* padding differ, so that the input was padded explicitly.
AsymmetricSameDone ==
    /\ pc = "done" /\ op = "max_pool_values" /\ args.padding = "same"
    /\ LET S == IF args.strides = None THEN args.pool_size[1] ELSE args.strides[1]
           pad == _compute_padding_length(Len(args.inputs), args.pool_size[1], S, 1)
       IN  pad[1] /= pad[2]

\* The input cells under the j-th window over the padded tensor.
OriginalCells(j) ==
    LET S == IF args.strides = None THEN args.pool_size[1] ELSE args.strides[1]
        cells == ret.native_inputs
        w == pool_window(j, args.pool_size[1], S, ret.native_padding, Len(cells))
    IN  {cells[q].source : q \in w} \ {0}

\* A window of the finished call covers a cell that the padding added.
CoversPaddedCell(j) ==
    LET S == IF args.strides = None THEN args.pool_size[1] ELSE args.strides[1]
        cells == ret.native_inputs
    IN  \E q \in pool_window(j, args.pool_size[1], S, ret.native_padding, Len(cells)) :
            cells[q].source = 0

\* C12: in max_pool with padding="same" on the asymmetric path, for every
\* 1-D input, pool size and stride, every pooling window over the
\* explicitly padded tensor contains at least one input cell, and each
\* output element is the maximum of the input cells under its window only,
\* as if the padded cells were ignored.
C12_ReplicatePaddingIsNeutral ==
    AsymmetricSameDone =>
        /\ ret.status = "ok"
        /\ \A j \in 1..Len(ret.outputs) :
               /\ OriginalCells(j) /= {}
               /\ ret.outputs[j] = MaxOf({args.inputs[i] : i \in OriginalCells(j)})

\* A window covers a replicated cell while a cell of the input is negative
\* and another is not: padding with zeros or dropping a cell would show.
C12_Witness ==
    /\ AsymmetricSameDone
    /\ ret.status = "ok"
    /\ \E j \in 1..Len(ret.outputs) : CoversPaddedCell(j)
    /\ \E i, k \in 1..Len(args.inputs) : args.inputs[i] < 0 /\ args.inputs[k] >= 0

====
